---- MODULE Spec2Model ----
(***************************************************************************)
(* glutin_x11_sym (src/src/lib.rs): the lazily loaded X11 libraries, the   *)
(* Display wrapper (Arc<Display>) with its registry of weak references     *)
(* DISPLAYS, the default display X11_DISPLAY, and the Xlib error callback  *)
(* with LATEST_ERROR and OLD_HANDLERS.                                     *)
(*                                                                         *)
(* Threads run the operations of the crate one source statement at a time. *)
(* An Arc<Display> is an object with a strong count; Drop for Display runs *)
(* in the thread whose decrement brings the count to zero.  parking_lot's  *)
(* Mutex is not reentrant: a thread that locks a mutex it holds never      *)
(* proceeds.                                                               *)
(***************************************************************************)
EXTENDS Integers, Sequences, FiniteSets, TLC

\* ------------------------------------------------------------------ bounds
\* Arc<Display> allocations that exist at one time, references to one of them
\* that callers hold when they ask for one more, and entries of OLD_HANDLERS.
MaxObjs == 2
MaxHeld == 2
MaxChain == 2

Threads == {1, 2}
Handles == {1, 2}
NULL == 0

\* The capability cells of lazy_static! (lines 29-59): the base library and
\* one of the structurally identical extensions.
Caps == {"XLIB", "GLX"}

\* Error handler identities: none installed, the crate's x_error_callback,
\* and two handlers of other code.
NoHandler == "none"
x_error_callback == "bridge"
ExtHandlers == {"h1", "h2"}

\* LATEST_ERROR holding None, no fault event, and the error of a failed
\* XOpenDisplay.
NoError == [kind |-> "none"]
NoEvent == [kind |-> "none"]
XNotSupported == [kind |-> "XOpenDisplayFailed"]

VARIABLES
    cap,          \* capability cells: "uninit" | "ok" | "err"
    loads,        \* native load attempts per capability
    threadsInit,  \* XInitThreads has been called
    earlyCall,    \* a native protocol call was made before XInitThreads
    curHandler,   \* the error handler Xlib currently holds
    oldHandlers,  \* OLD_HANDLERS
    hlock,        \* owner of the OLD_HANDLERS mutex (0: free)
    latestError,  \* LATEST_ERROR
    lastFault,    \* history: the fault event of the callback that stored last, since the slot was last emptied
    consumed,     \* history: what acted on LATEST_ERROR last
    displays,     \* DISPLAYS: Seq of object ids (weak references)
    lock,         \* owner of the DISPLAYS mutex (0: free)
    objs,         \* the Arc<Display> allocations, by address
    nativeOpen,   \* handles XOpenDisplay returned and XCloseDisplay has not closed
    cellRuns,     \* number of times the initializer of X11_DISPLAY was started
    cell,         \* X11_DISPLAY
    th            \* per thread: position and locals

vars == <<cap, loads, threadsInit, earlyCall, curHandler, oldHandlers, hlock,
          latestError, lastFault, consumed, displays, lock, objs, nativeOpen, cellRuns,
          cell, th>>

capVars == <<cap, loads>>
errVars == <<latestError, lastFault, consumed>>
hdlVars == <<curHandler, oldHandlers, hlock>>
regVars == <<displays, lock, objs, nativeOpen>>
initVars == <<threadsInit, earlyCall>>
cellVars == <<cell, cellRuns>>

\* ------------------------------------------------------------ thread state
Idle == [pc |-> "idle", arg |-> NULL, idx |-> 0, obj |-> 0, tmp |-> 0, keep |-> <<>>,
         old |-> NoHandler, via |-> "none", ev |-> NoEvent, err |-> NoError, fwd |-> <<>>,
         op |-> "none", ret |-> "none", robj |-> 0, after |-> "none"]

\* A thread back at rest, with the result of the operation it finished.
Done(o, r, ob) == [Idle EXCEPT !.op = o, !.ret = r, !.robj = ob]

Panicked(o) == [Idle EXCEPT !.pc = "panicked", !.op = o, !.ret = "panic"]

ObjIds == 1..MaxObjs
NoObj == [used |-> FALSE, handle |-> NULL, owned |-> FALSE, strong |-> 0, held |-> 0,
          closed |-> 0]
Live(o) == objs[o].strong > 0
FreeSlots == {o \in ObjIds : ~objs[o].used}
\* The allocator's choice among the free addresses.
NewSlot == CHOOSE o \in FreeSlots : \A x \in FreeSlots : o <= x
Busy(t) == th[t].pc \notin {"idle", "panicked"}

\* Objects allocated or about to be: the operations in flight that end in Arc::new.
Allocating == {t \in Threads : th[t].pc \in {"n_init", "n_seth", "n_chain", "n_open",
                                             "n_arc", "f_scan", "f_cmp", "f_arc"}}
CanAllocate == Cardinality(Allocating) < Cardinality(FreeSlots)

Init ==
    /\ cap = [c \in Caps |-> "uninit"]
    /\ loads = [c \in Caps |-> 0]
    /\ threadsInit = FALSE
    /\ earlyCall = FALSE
    /\ curHandler = NoHandler
    /\ oldHandlers = <<>>
    /\ hlock = 0
    /\ latestError = NoError
    /\ lastFault = NoEvent
    /\ consumed = "init"
    /\ displays = <<>>
    /\ lock = 0
    /\ objs = [o \in ObjIds |-> NoObj]
    /\ nativeOpen = {}
    /\ cellRuns = 0
    /\ cell = [state |-> "uninit", obj |-> 0]
    /\ th = [t \in Threads |-> Idle]

\* ------------------------------------------------------- capability cells
\* lazy_static!: the first access runs the initializer (<lib>::open()) under
\* a Once, every later access reads the stored Result.
\* Variant: a failed load is tried again by the next access.
CapRetry(c, found) ==
    IF cap[c] \in {"uninit", "err"}
    THEN [cap EXCEPT ![c] = IF found THEN "ok" ELSE "err"]
    ELSE cap

CapAfter(c, found) ==
    IF cap[c] = "uninit"
    THEN [cap EXCEPT ![c] = IF found THEN "ok" ELSE "err"]
    ELSE cap

LoadsAfter(c) ==
    IF cap[c] = "uninit" THEN [loads EXCEPT ![c] = @ + 1] ELSE loads

\* .as_ref().unwrap() of syms!/lsyms!: the reference for Ok, a panic for Err.
Unwrap(r) == IF r = "ok" THEN "ok" ELSE "panic"

\* syms!(c) in a caller of the crate.
Syms(t, c) ==
    /\ th[t].pc = "idle"
    /\ \E found \in BOOLEAN : cap' = CapAfter(c, found)
    /\ loads' = LoadsAfter(c)
    /\ th' = [th EXCEPT ![t] = IF Unwrap(cap'[c]) = "ok"
                               THEN Done("syms", "ok", 0)
                               ELSE Panicked("syms")]
    /\ UNCHANGED <<initVars, hdlVars, errVars, regVars, cellVars>>

\* ----------------------------------------------------------- Display::new
\* Display { display, owned: true } in a fresh Arc: the one strong reference
\* is the local `ret`.
OwnedDisplay(h) ==
    [used |-> TRUE, handle |-> h, owned |-> TRUE, strong |-> 1, held |-> 0, closed |-> 0]

\* Display { display: ndisp, owned: false } in a fresh Arc.
BorrowedDisplay(h) ==
    [used |-> TRUE, handle |-> h, owned |-> FALSE, strong |-> 1, held |-> 0, closed |-> 0]

\* Handles of connections that are open somewhere: XOpenDisplay returns none
\* of them.
InUse ==
    nativeOpen \cup {objs[o].handle : o \in {x \in ObjIds : Live(x)}}
               \cup {th[t].arg : t \in {x \in Threads : Busy(x)}}

\* The value Display::new returns goes to its caller, or, for the
\* initializer of X11_DISPLAY, into the cell.
CellAfter(t, state, o) ==
    IF th[t].via = "cell" THEN [state |-> state, obj |-> o] ELSE cell

\* let xlib = lsyms!(XLIB);  (line 99)
NewSyms(t, via) ==
    /\ th[t].pc = "idle"
    /\ CanAllocate
    /\ \E found \in BOOLEAN : cap' = CapAfter("XLIB", found)
    /\ loads' = LoadsAfter("XLIB")
    /\ IF Unwrap(cap'["XLIB"]) = "ok"
       THEN /\ th' = [th EXCEPT ![t] = [Idle EXCEPT !.pc = "n_init", !.via = via, !.op = "new"]]
            /\ cell' = IF via = "cell" THEN [state |-> "running", obj |-> 0] ELSE cell
       ELSE /\ th' = [th EXCEPT ![t] = Panicked("new")]
            /\ cell' = IF via = "cell" THEN [state |-> "poisoned", obj |-> 0] ELSE cell
    /\ cellRuns' = IF via = "cell" THEN cellRuns + 1 ELSE cellRuns
    /\ UNCHANGED <<initVars, hdlVars, errVars, regVars>>

\* Display::new() called from inside the crate.
New(t) == NewSyms(t, "direct")

\* Variant: the call is left out.
InitThreadsSkipped(was) == was

\* What XInitThreads makes of the process: Xlib is in threaded mode from the
\* first call on.
InitThreads(was) == TRUE

\* (xlib.XInitThreads)()  (line 100)
NewInitThreads(t) ==
    /\ th[t].pc = "n_init"
    /\ threadsInit' = InitThreads(threadsInit)
    /\ th' = [th EXCEPT ![t].pc = "n_seth"]
    /\ UNCHANGED <<capVars, earlyCall, hdlVars, errVars, regVars, cellVars>>

\* let old_handler = (xlib.XSetErrorHandler)(Some(x_error_callback))  (line 102)
NewSetHandler(t) ==
    /\ th[t].pc = "n_seth"
    /\ curHandler' = x_error_callback
    /\ earlyCall' = (earlyCall \/ ~threadsInit)
    /\ th' = [th EXCEPT ![t].pc = "n_chain", ![t].old = curHandler]
    /\ UNCHANGED <<capVars, threadsInit, oldHandlers, hlock, errVars, regVars, cellVars>>

\* Variant: every handler XSetErrorHandler returns is recorded.
RecordsAny(h) == h # NoHandler

\* Some(old_handler) if old_handler != x_error_callback  (line 105)
RecordsOld(h) == h # NoHandler /\ h # x_error_callback

\* match old_handler { ... OLD_HANDLERS.lock().push(old_handler) ... }  (lines 104-109)
NewChain(t) ==
    /\ th[t].pc = "n_chain"
    /\ IF RecordsOld(th[t].old)
       THEN /\ hlock = 0
            /\ oldHandlers' = Append(oldHandlers, th[t].old)
       ELSE oldHandlers' = oldHandlers
    /\ th' = [th EXCEPT ![t].pc = "n_open", ![t].old = NoHandler]
    /\ UNCHANGED <<capVars, initVars, curHandler, hlock, errVars, regVars, cellVars>>

\* Variant: the result of XOpenDisplay is not tested.
IsNullNever(h) == FALSE

\* display.is_null()  (line 114)
IsNull(h) == h = NULL

\* (xlib.XOpenDisplay)(ptr::null()) and the null test  (lines 112-120)
NewOpen(t) ==
    /\ th[t].pc = "n_open"
    /\ earlyCall' = (earlyCall \/ ~threadsInit)
    /\ \E h \in {NULL} \cup (Handles \ InUse) :
          IF IsNull(h)
          THEN /\ th' = [th EXCEPT ![t] = [Done("new", "err", 0) EXCEPT
                                               !.err = XNotSupported]]
               /\ cell' = CellAfter(t, "err", 0)
               /\ nativeOpen' = nativeOpen
          ELSE /\ th' = [th EXCEPT ![t].pc = "n_arc", ![t].arg = h]
               /\ cell' = cell
               /\ nativeOpen' = nativeOpen \cup {h}
    /\ UNCHANGED <<capVars, threadsInit, hdlVars, errVars, displays, lock, objs, cellRuns>>

\* let ret = Arc::new(Display { display, owned: true })  (lines 122-125)
NewArc(t) ==
    /\ th[t].pc = "n_arc"
    /\ objs' = [objs EXCEPT ![NewSlot] = OwnedDisplay(th[t].arg)]
    /\ th' = [th EXCEPT ![t].pc = "n_push", ![t].obj = NewSlot]
    /\ UNCHANGED <<capVars, initVars, hdlVars, errVars, displays, lock, nativeOpen, cellVars>>

\* Variant: the Arc in X11_DISPLAY can be dropped like one a caller holds.
HandedOutAlways(via) == TRUE

\* Ok(ret) goes to a caller, who can drop it, unless it goes into the static
\* X11_DISPLAY, which is never dropped.  (lines 62, 129)
HandedOut(via) == via # "cell"

\* DISPLAYS.lock().push(Arc::downgrade(&ret)); Ok(ret)  (lines 127-129)
NewPush(t) ==
    /\ th[t].pc = "n_push"
    /\ lock = 0
    /\ displays' = Append(displays, th[t].obj)
    /\ cell' = CellAfter(t, "ok", th[t].obj)
    /\ objs' = IF HandedOut(th[t].via)
               THEN [objs EXCEPT ![th[t].obj].held = 1]
               ELSE objs
    /\ th' = [th EXCEPT ![t] = Done("new", "ok", th[t].obj)]
    /\ UNCHANGED <<capVars, initVars, hdlVars, errVars, lock, nativeOpen, cellRuns>>

\* ------------------------------------------------------------ X11_DISPLAY
\* Variant: a cached failure is computed again.
NeedsInitOrFailed(c) == c.state \in {"uninit", "err"}

\* lazy_static!: the initializer runs for the first access only.  (lines 61-62)
NeedsInit(c) == c.state = "uninit"

\* The first access runs Mutex::new(Display::new()) under the cell's Once;
\* accesses made meanwhile wait for it.  (line 62)
DefaultInit(t) ==
    /\ NeedsInit(cell)
    /\ NewSyms(t, "cell")

\* A later access reads the cached Result; after a panic of the initializer
\* the Once is poisoned and the access panics.
DefaultGet(t) ==
    /\ th[t].pc = "idle"
    /\ cell.state \in {"ok", "err", "poisoned"}
    /\ th' = [th EXCEPT ![t] =
                 IF cell.state = "poisoned" THEN Panicked("default")
                 ELSE Done("default", cell.state, 0)]
    /\ UNCHANGED <<capVars, initVars, hdlVars, errVars, regVars, cellVars>>

\* ------------------------------------------------------------ Arc<Display>
\* Variant: the registry resolves an entry for as long as its allocation exists.
UpgradeDead(o) == objs[o].used

\* Weak::upgrade succeeds while the strong count is not zero.
Upgrade(o) == objs[o].strong > 0

\* Variant: every owner that goes away runs Drop for Display.
EveryOwner(o) == TRUE

\* Dropping one strong reference runs Drop for Display when it was the last.
LastOwner(o) == objs[o].strong = 1

\* The references callers hold: those returned to them and, through the
\* mutex of X11_DISPLAY, the one in the cell.
Reachable(o) == objs[o].held > 0 \/ (cell.state = "ok" /\ cell.obj = o)

\* Arc::clone by a caller.
CloneArc(t, o) ==
    /\ th[t].pc = "idle"
    /\ Reachable(o)
    /\ objs[o].held < MaxHeld
    /\ objs' = [objs EXCEPT ![o].strong = @ + 1, ![o].held = @ + 1]
    /\ th' = [th EXCEPT ![t] = Idle]
    /\ UNCHANGED <<capVars, initVars, hdlVars, errVars, displays, lock, nativeOpen, cellVars>>

\* A caller drops an Arc<Display> it holds.
DropArc(t, o) ==
    /\ th[t].pc = "idle"
    /\ objs[o].held > 0
    /\ objs' = [objs EXCEPT ![o].strong = @ - 1, ![o].held = @ - 1]
    /\ th' = [th EXCEPT ![t] =
                 IF LastOwner(o)
                 THEN [Idle EXCEPT !.pc = "d_close", !.obj = o, !.op = "drop"]
                 ELSE Idle]
    /\ UNCHANGED <<capVars, initVars, hdlVars, errVars, displays, lock, nativeOpen, cellVars>>

\* ------------------------------------------------------- Display::from_raw
\* Handles XOpenDisplay has returned to a Display::new that has not returned
\* yet: no caller of from_raw has them.
Unpublished == {th[x].arg : x \in {y \in Threads : th[y].pc \in {"n_arc", "n_push"}}}

\* for display in &*DISPLAYS.lock()  (line 139): the guard lives until the
\* loop is left.
FromRawLock(t, p) ==
    /\ th[t].pc = "idle"
    /\ p \notin Unpublished
    /\ CanAllocate
    /\ \A o \in ObjIds : objs[o].held < MaxHeld
    /\ lock = 0
    /\ lock' = t
    /\ th' = [th EXCEPT ![t] = [Idle EXCEPT !.pc = "f_scan", !.arg = p, !.idx = 1,
                                            !.op = "from_raw"]]
    /\ UNCHANGED <<capVars, initVars, hdlVars, errVars, displays, objs, nativeOpen, cellVars>>

\* if let Some(display) = display.upgrade()  (line 140); after the last
\* entry the guard is released.
FromRawScan(t) ==
    /\ th[t].pc = "f_scan"
    /\ IF th[t].idx > Len(displays)
       THEN /\ lock' = 0
            /\ objs' = objs
            /\ th' = [th EXCEPT ![t].pc = "f_arc", ![t].idx = 0]
       ELSE LET o == displays[th[t].idx] IN
            /\ lock' = lock
            /\ IF Upgrade(o)
               THEN /\ objs' = [objs EXCEPT ![o].strong = @ + 1]
                    /\ th' = [th EXCEPT ![t].pc = "f_cmp", ![t].tmp = o]
               ELSE /\ objs' = objs
                    /\ th' = [th EXCEPT ![t].idx = @ + 1]
    /\ UNCHANGED <<capVars, initVars, hdlVars, errVars, displays, nativeOpen, cellVars>>

\* Variant: the first live entry is taken, whatever its handle.
MatchesAny(o, p) == TRUE

\* if display.display == ndisp  (line 141)
Matches(o, p) == objs[o].handle = p

\* return Arc::clone(&display)  (line 142), or the end of the if-let body:
\* the upgraded Arc is dropped while the guard is held, and Drop for Display
\* runs here when every other owner went away since the upgrade.
FromRawCmp(t) ==
    /\ th[t].pc = "f_cmp"
    /\ LET o == th[t].tmp IN
       IF Matches(o, th[t].arg)
       THEN /\ objs' = [objs EXCEPT ![o].held = @ + 1]
            /\ lock' = 0
            /\ th' = [th EXCEPT ![t] = Done("from_raw", "shared", o)]
       ELSE /\ objs' = [objs EXCEPT ![o].strong = @ - 1]
            /\ lock' = lock
            /\ th' = [th EXCEPT ![t] =
                         IF LastOwner(o)
                         THEN [@ EXCEPT !.pc = "d_close", !.obj = o, !.tmp = 0]
                         ELSE [@ EXCEPT !.pc = "f_scan", !.idx = @ + 1, !.tmp = 0]]
    /\ UNCHANGED <<capVars, initVars, hdlVars, errVars, displays, nativeOpen, cellVars>>

\* let ret = Arc::new(Display { display: ndisp, owned: false })  (lines 147-150)
FromRawArc(t) ==
    /\ th[t].pc = "f_arc"
    /\ objs' = [objs EXCEPT ![NewSlot] = BorrowedDisplay(th[t].arg)]
    /\ th' = [th EXCEPT ![t].pc = "f_push", ![t].obj = NewSlot]
    /\ UNCHANGED <<capVars, initVars, hdlVars, errVars, displays, lock, nativeOpen, cellVars>>

\* DISPLAYS.lock().push(Arc::downgrade(&ret)); ret  (lines 152-154)
FromRawPush(t) ==
    /\ th[t].pc = "f_push"
    /\ lock = 0
    /\ displays' = Append(displays, th[t].obj)
    /\ objs' = [objs EXCEPT ![th[t].obj].held = 1]
    /\ th' = [th EXCEPT ![t] = Done("from_raw", "created", th[t].obj)]
    /\ UNCHANGED <<capVars, initVars, hdlVars, errVars, lock, nativeOpen, cellVars>>

\* ------------------------------------------------------- Drop for Display
\* Variant: the handle is closed whatever the ownership flag.
ClosesAlways(o) == TRUE

\* if self.owned { (xlib.XCloseDisplay)(self.display) }  (lines 178-181)
Closes(o) == objs[o].owned

DropClose(t) ==
    /\ th[t].pc = "d_close"
    /\ LET o == th[t].obj IN
       IF Closes(o)
       THEN /\ objs' = [objs EXCEPT ![o].closed = @ + 1]
            /\ nativeOpen' = nativeOpen \ {objs[o].handle}
            /\ earlyCall' = (earlyCall \/ ~threadsInit)
       ELSE UNCHANGED <<objs, nativeOpen, earlyCall>>
    /\ th' = [th EXCEPT ![t].pc = "d_lock"]
    /\ UNCHANGED <<capVars, threadsInit, hdlVars, errVars, displays, lock, cellVars>>

\* let mut displays = DISPLAYS.lock()  (line 184): never granted to a thread
\* that is inside from_raw's loop or inside the prune.
DropLock(t) ==
    /\ th[t].pc = "d_lock"
    /\ lock = 0
    /\ lock' = t
    /\ th' = [th EXCEPT ![t].pc = "p_scan", ![t].idx = 1, ![t].keep = <<>>]
    /\ UNCHANGED <<capVars, initVars, hdlVars, errVars, displays, objs, nativeOpen, cellVars>>

\* The allocation of an Arc is freed when its last strong and its last weak
\* reference are gone: here, when the prune of thread t leaves `kept` in the
\* registry and Drop for Display has returned.
Freed(t, kept) ==
    [o \in ObjIds |->
        IF /\ objs[o].used /\ objs[o].strong = 0
           /\ \A i \in 1..Len(kept) : kept[i] # o
           /\ \A x \in Threads \ {t} : ~(Busy(x) /\ th[x].obj = o)
        THEN NoObj ELSE objs[o]]

\* Variant: the collected entries are not stored.
AssignedNot(old, kept) == old

\* *displays = displays.drain(..).filter(..).collect()  (line 186)
Assigned(old, kept) == kept

\* .filter(|display| display.upgrade().is_some())  (line 188), one entry; at
\* the end the collected entries replace the registry and the guard goes.
PruneScan(t) ==
    /\ th[t].pc = "p_scan"
    /\ IF th[t].idx > Len(displays)
       THEN /\ displays' = Assigned(displays, th[t].keep)
            /\ lock' = 0
            /\ objs' = Freed(t, th[t].keep)
            /\ th' = [th EXCEPT ![t] = Idle]
       ELSE LET o == displays[th[t].idx] IN
            /\ displays' = displays
            /\ lock' = lock
            /\ IF Upgrade(o)
               THEN /\ objs' = [objs EXCEPT ![o].strong = @ + 1]
                    /\ th' = [th EXCEPT ![t].pc = "p_tmp", ![t].tmp = o]
               ELSE /\ objs' = objs
                    /\ th' = [th EXCEPT ![t].idx = @ + 1]
    /\ UNCHANGED <<capVars, initVars, hdlVars, errVars, nativeOpen, cellVars>>

\* The Arc that upgrade() returned is dropped at the end of the closure,
\* inside the prune.
PruneTmp(t) ==
    /\ th[t].pc = "p_tmp"
    /\ LET o == th[t].tmp IN
       /\ objs' = [objs EXCEPT ![o].strong = @ - 1]
       /\ th' = [th EXCEPT ![t] =
                    IF LastOwner(o)
                    THEN [@ EXCEPT !.pc = "d_close", !.obj = o, !.tmp = 0]
                    ELSE [@ EXCEPT !.pc = "p_scan", !.idx = @ + 1, !.tmp = 0,
                                   !.keep = Append(@, o)]]
    /\ UNCHANGED <<capVars, initVars, hdlVars, errVars, displays, lock, nativeOpen, cellVars>>

\* -------------------------------------------------------- x_error_callback
\* The XErrorEvent fields the callback reads, for two faults.
Events == {[error_code |-> 9, request_code |-> 42, minor_code |-> 0],
           [error_code |-> 3, request_code |-> 9, minor_code |-> 42]}

\* make_oserror!(OsError::XError(XError { description, error_code,
\* request_code, minor_code }))  (lines 209-214)
MakeXError(e) ==
    [kind |-> "XError", error_code |-> e.error_code,
     request_code |-> e.request_code, minor_code |-> e.minor_code]

\* Xlib calls the handler it holds.  lsyms!(XLIB), XGetErrorText and the
\* construction of the error  (lines 197-216)
CbEnter(t, e) ==
    /\ th[t].pc = "idle"
    /\ curHandler = x_error_callback
    /\ Unwrap(cap["XLIB"]) = "ok"
    /\ earlyCall' = (earlyCall \/ ~threadsInit)
    /\ th' = [th EXCEPT ![t] = [Idle EXCEPT !.pc = "cb_store", !.ev = e,
                                            !.err = MakeXError(e), !.op = "callback"]]
    /\ UNCHANGED <<capVars, threadsInit, hdlVars, errVars, regVars, cellVars>>

\* Variant: an error that was not consumed yet is kept.
StoreIfEmpty(old, new) == IF old = NoError THEN new ELSE old

\* *LATEST_ERROR.lock() = Some(error)  (line 218)
StoreError(old, new) == new

CbStore(t) ==
    /\ th[t].pc = "cb_store"
    /\ latestError' = StoreError(latestError, th[t].err)
    /\ lastFault' = th[t].ev
    /\ consumed' = "fault"
    /\ th' = [th EXCEPT ![t].pc = "cb_lock", ![t].after = consumed]
    /\ UNCHANGED <<capVars, initVars, hdlVars, regVars, cellVars>>

\* for old_handler in OLD_HANDLERS.lock().iter().rev()  (line 220): the guard
\* lives until the loop ends.
CbLock(t) ==
    /\ th[t].pc = "cb_lock"
    /\ hlock = 0
    /\ hlock' = t
    /\ th' = [th EXCEPT ![t].pc = "cb_fwd", ![t].idx = Len(oldHandlers)]
    /\ UNCHANGED <<capVars, initVars, curHandler, oldHandlers, errVars, regVars, cellVars>>

\* Variant: the chain is walked from its first entry.
NextFromFront(chain, left) == chain[Len(chain) - left + 1]

\* .iter().rev()  (line 220): with `left` entries not yet visited, the next
\* one is the last of them.
NextFromBack(chain, left) == chain[left]

\* old_handler(display_ptr, event)  (line 221), one handler; then return 0.
CbForward(t) ==
    /\ th[t].pc = "cb_fwd"
    /\ IF th[t].idx = 0
       THEN /\ hlock' = 0
            /\ th' = [th EXCEPT ![t] = [Done("callback", "ok", 0) EXCEPT
                                           !.ev = th[t].ev, !.fwd = th[t].fwd,
                                           !.after = th[t].after]]
       ELSE /\ hlock' = hlock
            /\ th' = [th EXCEPT ![t].fwd = Append(@, NextFromBack(oldHandlers, th[t].idx)),
                                ![t].idx = @ - 1]
    /\ UNCHANGED <<capVars, initVars, curHandler, oldHandlers, errVars, regVars, cellVars>>

\* Other code installs its own handler with XSetErrorHandler.
ChainDemand ==
    Len(oldHandlers)
    + Cardinality({t \in Threads : th[t].pc = "n_chain" /\ th[t].old \in ExtHandlers})
    + (IF curHandler \in ExtHandlers THEN 1 ELSE 0)

ExtInstall(h) ==
    /\ curHandler # h
    /\ curHandler \in ExtHandlers \/ ChainDemand < MaxChain
    /\ curHandler' = h
    /\ UNCHANGED <<capVars, initVars, oldHandlers, hlock, errVars, regVars, cellVars, th>>

\* ------------------------------------------- check_errors and ignore_error
\* Variant: the slot is read and left as it is.
TakeKeeps(slot) == [value |-> slot, left |-> slot]

\* LATEST_ERROR.lock().take()  (line 160): the value and what is left.
Take(slot) == [value |-> slot, left |-> NoError]

\* Display::check_errors(&self)  (lines 159-166)
CheckErrors(t, o) ==
    /\ th[t].pc = "idle"
    /\ Reachable(o)
    /\ LET r == Take(latestError) IN
       /\ latestError' = r.left
       /\ th' = [th EXCEPT ![t] =
                    [Done("check_errors", IF r.value = NoError THEN "ok" ELSE "err", 0)
                        EXCEPT !.err = r.value, !.ev = lastFault, !.after = consumed]]
       /\ consumed' = IF r.value = NoError THEN "check_ok" ELSE "check_err"
    /\ lastFault' = NoEvent
    /\ UNCHANGED <<capVars, initVars, hdlVars, regVars, cellVars>>

\* Variant: nothing is cleared.
ClearedNot(slot) == slot

\* *LATEST_ERROR.lock() = None  (line 171)
Cleared(slot) == NoError

\* Display::ignore_error(&self)  (lines 170-172)
IgnoreError(t, o) ==
    /\ th[t].pc = "idle"
    /\ Reachable(o)
    /\ latestError' = Cleared(latestError)
    /\ lastFault' = NoEvent
    /\ consumed' = "ignore"
    /\ th' = [th EXCEPT ![t] = [Done("ignore_error", "ok", 0) EXCEPT !.ev = lastFault]]
    /\ UNCHANGED <<capVars, initVars, hdlVars, regVars, cellVars>>

\* ------------------------------------------------------- specifications
NewSteps(t) ==
    \/ NewInitThreads(t) \/ NewSetHandler(t) \/ NewChain(t) \/ NewOpen(t)
    \/ NewArc(t) \/ NewPush(t)

FromRawSteps(t) ==
    \/ FromRawScan(t) \/ FromRawCmp(t) \/ FromRawArc(t) \/ FromRawPush(t)

DropSteps(t) ==
    \/ DropClose(t) \/ DropLock(t) \/ PruneScan(t) \/ PruneTmp(t)

CbSteps(t) ==
    \/ CbStore(t) \/ CbLock(t) \/ CbForward(t)

\* Connections: Display::new, from_raw, clones and drops on several threads.
Next ==
    \E t \in Threads :
        \/ New(t)
        \/ \E p \in Handles : FromRawLock(t, p)
        \/ \E o \in ObjIds : CloneArc(t, o)
        \/ \E o \in ObjIds : DropArc(t, o)
        \/ NewSteps(t) \/ FromRawSteps(t) \/ DropSteps(t)

Spec == Init /\ [][Next]_vars

\* The crate as its users reach it: Display::new runs only as the initializer
\* of X11_DISPLAY.
NextDefault ==
    \E t \in Threads :
        \/ DefaultInit(t)
        \/ DefaultGet(t)
        \/ \E p \in Handles : FromRawLock(t, p)
        \/ \E o \in ObjIds : CloneArc(t, o)
        \/ \E o \in ObjIds : DropArc(t, o)
        \/ NewSteps(t) \/ FromRawSteps(t) \/ DropSteps(t)

SpecDefault == Init /\ [][NextDefault]_vars

\* The error slot: faults and polls around Display::new, in a process where
\* no other code installs an error handler.
NextErr ==
    \E t \in Threads :
        \/ New(t)
        \/ NewSteps(t)
        \/ \E e \in Events : CbEnter(t, e)
        \/ CbSteps(t)
        \/ \E o \in ObjIds : CheckErrors(t, o)
        \/ \E o \in ObjIds : IgnoreError(t, o)

SpecErr == Init /\ [][NextErr]_vars

\* The handler chain: Display::new and faults in a process where other code
\* installs its error handlers at any time.
NextChain ==
    \/ \E h \in ExtHandlers : ExtInstall(h)
    \/ \E t \in Threads :
        \/ New(t)
        \/ NewSteps(t)
        \/ \E e \in Events : CbEnter(t, e)
        \/ CbSteps(t)

SpecChain == Init /\ [][NextChain]_vars

\* The capability cells: syms! in callers of the crate on several threads,
\* around Display::new and the drop of what it returned.
NextCap ==
    \E t \in Threads :
        \/ \E c \in Caps : Syms(t, c)
        \/ New(t)
        \/ NewSteps(t)
        \/ \E o \in ObjIds : DropArc(t, o)
        \/ DropSteps(t)

SpecCap == Init /\ [][NextCap]_vars

\* The native calls of the crate: Display::new, from_raw, the drops that
\* close, and the callback's XGetErrorText.  Which handle from_raw is given
\* and which fault Xlib reports make no difference to the calls made: one of
\* each is used.
AHandle == CHOOSE p \in Handles : TRUE
AnEvent == CHOOSE e \in Events : TRUE

NextNative ==
    \E t \in Threads :
        \/ New(t)
        \/ FromRawLock(t, AHandle)
        \/ \E o \in ObjIds : DropArc(t, o)
        \/ NewSteps(t) \/ FromRawSteps(t) \/ DropSteps(t)
        \/ CbEnter(t, AnEvent)
        \/ CbSteps(t)

SpecNative == Init /\ [][NextNative]_vars

\* ------------------------------------------------------------------ claims
InRegistry(o) == \E i \in 1..Len(displays) : displays[i] = o
InDrop(t) == th[t].pc \in {"d_lock", "p_scan", "p_tmp"}

\* C1: in every reachable state at most one live Connection object (strong
\* count > 0) exists per native handle, under any interleaving of new,
\* from_raw and drops.
C1_OneLivePerHandle ==
    \A a, b \in ObjIds :
        (a # b /\ Live(a) /\ Live(b)) => objs[a].handle # objs[b].handle

\* C2: a from_raw(p) whose scan of the registry meets a live entry with
\* handle p returns one more owner of that very object, with its ownership
\* flag, creates no object and appends no entry; it leaves the scan to create
\* only when no live entry matches p, and then creates exactly one Borrowed
\* object for p and appends exactly one entry, for that object.
C2_FromRawSharesOrCreates ==
    [][\A t \in Threads :
        /\ (th[t].pc = "f_cmp" /\ th'[t] # th[t] /\ objs[th[t].tmp].handle = th[t].arg)
              => th'[t].pc = "idle"
        /\ (th[t].pc = "f_cmp" /\ th'[t].pc = "idle") =>
              LET o == th'[t].robj IN
              /\ th'[t].ret = "shared"
              /\ InRegistry(o)
              /\ objs[o].handle = th[t].arg
              /\ objs'[o] = [objs[o] EXCEPT !.held = @ + 1]
              /\ objs'[o].strong > 0
              /\ \A x \in ObjIds \ {o} : objs'[x] = objs[x]
              /\ displays' = displays
        /\ (th[t].pc = "f_scan" /\ th'[t].pc = "f_arc") =>
              \A i \in 1..Len(displays) :
                  ~(Live(displays[i]) /\ objs[displays[i]].handle = th[t].arg)
        /\ (th[t].pc = "f_arc" /\ th'[t].pc = "f_push") =>
              LET o == th'[t].obj IN
              /\ ~objs[o].used
              /\ objs'[o].used /\ ~objs'[o].owned /\ objs'[o].handle = th[t].arg
              /\ \A x \in ObjIds \ {o} : objs'[x] = objs[x]
              /\ displays' = displays
        /\ (th[t].pc = "f_push" /\ th'[t].pc = "idle") =>
              /\ th'[t].ret = "created" /\ th'[t].robj = th[t].obj
              /\ displays' = Append(displays, th[t].obj)
              /\ \A x \in ObjIds : objs'[x].used = objs[x].used
      ]_vars

\* Both cases have happened: one from_raw created the object for a handle and
\* another returned a second owner of it.
C2_Witness ==
    \E t, u \in Threads :
        /\ th[t].op = "from_raw" /\ th[t].ret = "created"
        /\ th[u].op = "from_raw" /\ th[u].ret = "shared"
        /\ th[u].robj = th[t].robj
        /\ objs[th[t].robj].held = 2
        /\ Len(displays) = 1

\* C3: for every Owned Connection, XCloseDisplay runs at most once, only once
\* no strong owner is left, and never on the handle of an Owned Connection
\* that still has one.
C3_ClosedOnceAtLastDrop ==
    \A o \in ObjIds :
        (objs[o].used /\ objs[o].owned) =>
            /\ objs[o].closed <= 1
            /\ objs[o].closed = 1 => (objs[o].strong = 0 /\ objs[o].held = 0)
            /\ objs[o].strong > 0 => objs[o].handle \in nativeOpen

\* An Owned Connection that from_raw shared has been closed by its last drop.
C3_Witness ==
    \E o \in ObjIds, t \in Threads :
        /\ objs[o].used /\ objs[o].owned /\ objs[o].closed = 1
        /\ th[t].op = "from_raw" /\ th[t].ret = "shared" /\ th[t].robj = o

\* C4: the destruction of a Borrowed Connection never runs XCloseDisplay; the
\* objects from_raw creates are Borrowed and only those of Display::new are
\* Owned and close.
C4_BorrowedNeverCloses ==
    /\ \A o \in ObjIds : (objs[o].used /\ objs[o].closed > 0) => objs[o].owned
    /\ \A t \in Threads :
          /\ th[t].pc = "f_push" => ~objs[th[t].obj].owned
          /\ th[t].pc = "n_push" => objs[th[t].obj].owned

\* Drop for Display of a Borrowed Connection is past its close statement.
C4_Witness ==
    \E t \in Threads :
        /\ InDrop(t)
        /\ objs[th[t].obj].used /\ ~objs[th[t].obj].owned
        /\ objs[th[t].obj].strong = 0 /\ objs[th[t].obj].closed = 0

\* C5: once the strong count of a Connection is zero no registry lookup
\* resolves to it again: it stays zero for as long as the allocation exists,
\* and the entry the scan of from_raw holds on to is a live one.
C5_DeadNeverResolves ==
    [][/\ \A o \in ObjIds :
             (objs[o].used /\ objs[o].strong = 0) => objs'[o].strong = 0
       /\ \A t \in Threads :
             (th[t].pc = "f_scan" /\ th'[t].pc = "f_cmp") => Live(th'[t].tmp)
      ]_vars

\* from_raw(p) has scanned past the entry, not yet pruned, of the Owned
\* Connection for p whose last owner was dropped.
C5_Witness ==
    \E t \in Threads, i \in 1..Len(displays) :
        /\ th[t].pc = "f_scan" /\ i < th[t].idx
        /\ objs[displays[i]].owned /\ objs[displays[i]].strong = 0
        /\ objs[displays[i]].handle = th[t].arg

\* C6: a check_errors that fails returns exactly the codes of the fault the
\* callback stored last since the slot was last emptied; a fault stored over
\* an unconsumed one replaces it, so the slot always holds the last one.
C6_CheckReturnsLastFault ==
    /\ lastFault # NoEvent =>
          /\ latestError.kind = "XError"
          /\ latestError.error_code = lastFault.error_code
          /\ latestError.request_code = lastFault.request_code
          /\ latestError.minor_code = lastFault.minor_code
    /\ \A t \in Threads :
          (th[t].op = "check_errors" /\ th[t].ret = "err") =>
              /\ th[t].ev # NoEvent
              /\ th[t].err.kind = "XError"
              /\ th[t].err.error_code = th[t].ev.error_code
              /\ th[t].err.request_code = th[t].ev.request_code
              /\ th[t].err.minor_code = th[t].ev.minor_code

\* A callback stored its fault over an unconsumed one, and the check_errors
\* that emptied the slot last returned that fault.
C6_Witness ==
    \E t, u \in Threads :
        /\ consumed = "check_err"
        /\ th[u].op = "callback" /\ th[u].pc = "idle" /\ th[u].after = "fault"
        /\ th[t].op = "check_errors" /\ th[t].ret = "err"
        /\ th[t].ev = th[u].ev
        /\ th[t].err.error_code = 3 /\ th[t].err.request_code = 9
        /\ th[t].err.minor_code = 42

\* C7: check_errors empties the slot whatever it returns: a check_errors that
\* follows another one with no fault stored in between returns success.
C7_SecondCheckSucceeds ==
    /\ consumed \in {"check_ok", "check_err"} => latestError = NoError
    /\ \A t \in Threads :
          (th[t].op = "check_errors" /\ th[t].after \in {"check_ok", "check_err"})
              => th[t].ret = "ok"

\* A check_errors returned success right after one that had returned a failure.
C7_Witness ==
    \E t \in Threads :
        th[t].op = "check_errors" /\ th[t].after = "check_err" /\ th[t].ret = "ok"

\* C8: ignore_error leaves LATEST_ERROR empty and changes nothing else, and a
\* check_errors that follows it with no fault stored in between succeeds.
C8_IgnoreClearsOnly ==
    [][/\ \A t \in Threads :
          /\ (th'[t].op = "check_errors" /\ th'[t].after = "ignore") => th'[t].ret = "ok"
          /\ (th'[t].op = "ignore_error" /\ th'[t] # th[t])
                => /\ latestError' = NoError
                   /\ UNCHANGED <<capVars, initVars, hdlVars, regVars, cellVars>>
                   /\ \A u \in Threads \ {t} : th'[u] = th[u]
       /\ (consumed # "ignore" /\ consumed' = "ignore")
             => /\ latestError' = NoError
                /\ UNCHANGED <<capVars, initVars, hdlVars, regVars, cellVars>>
      ]_vars

\* ignore_error discarded a recorded fault while the registry held an entry,
\* and the next check_errors succeeded.
C8_Witness ==
    \E t, u \in Threads :
        /\ th[u].op = "ignore_error" /\ th[u].ev # NoEvent
        /\ th[t].op = "check_errors" /\ th[t].after = "ignore" /\ th[t].ret = "ok"
        /\ Len(displays) > 0

\* C9: the initializer of X11_DISPLAY runs Display::new at most once, on one
\* thread; once it has returned no other run is under way, and every access
\* that returns sees the Result the cell holds.
C9_DefaultComputedOnce ==
    /\ cellRuns <= 1
    /\ Cardinality({t \in Threads : th[t].via = "cell"}) <= 1
    /\ cell.state \in {"ok", "err", "poisoned"} => \A t \in Threads : th[t].via # "cell"
    /\ cell.state = "ok" => (Live(cell.obj) /\ objs[cell.obj].owned)
    /\ \A t \in Threads :
          (th[t].op = "default" /\ th[t].ret # "panic") => th[t].ret = cell.state

\* The one run failed (XOpenDisplay returned null) and both threads, in later
\* accesses, got the cached failure.
C9_Witness ==
    /\ cell.state = "err" /\ cellRuns = 1
    /\ \A t \in Threads : th[t].op = "default" /\ th[t].ret = "err"

\* C10: no operation ends in a panic when a library failed to load: the
\* operation that needs it returns an error value.
C10_UnavailableIsAnErrorValue ==
    \A t \in Threads : th[t].pc # "panicked" /\ th[t].ret # "panic"

\* C11: for each capability the native load runs at most once, on the first
\* access; a cell that was not accessed has no load and no outcome; once an
\* outcome is stored no later access, from any thread, changes it or loads
\* again, a failed load included.
C11_LoadedOnceAndStable ==
    [][\A c \in Caps :
          /\ loads'[c] <= 1
          /\ (cap'[c] = "uninit") <=> (loads'[c] = 0)
          /\ cap[c] # "uninit" => (cap'[c] = cap[c] /\ loads'[c] = loads[c])
      ]_vars

\* Both threads accessed a capability whose one load had failed, while the
\* other capability was loaded and used.
C11_Witness ==
    /\ cap["GLX"] = "err" /\ loads["GLX"] = 1
    /\ cap["XLIB"] = "ok" /\ loads["XLIB"] = 1
    /\ \A t \in Threads : th[t].op = "syms" /\ th[t].pc = "panicked"
    /\ Len(displays) > 0

\* The statement a thread is at takes the DISPLAYS mutex (lines 127, 152,
\* 184) or the OLD_HANDLERS mutex (lines 106, 220).
AtDisplaysLock(t) == th[t].pc \in {"n_push", "f_push", "d_lock"}
AtHandlersLock(t) ==
    \/ th[t].pc = "cb_lock"
    \/ th[t].pc = "n_chain" /\ RecordsOld(th[t].old)
HoldsLock(t) == lock = t \/ hlock = t

\* C12: no thread is at a statement that takes the DISPLAYS or OLD_HANDLERS
\* mutex while it holds one of them, the same one included, so no thread
\* waits for a mutex it owns.
C12_NoLockWhileHolding ==
    \A t \in Threads : (AtDisplaysLock(t) \/ AtHandlersLock(t)) => ~HoldsLock(t)

Reversed(s) == [i \in 1..Len(s) |-> s[Len(s) + 1 - i]]

\* C14: a handler of OLD_HANDLERS is called by a callback only after that
\* callback stored its error in LATEST_ERROR, and a callback that returns has
\* called every entry of the chain exactly once, the last recorded first and
\* the first recorded last.
C14_StoreThenForwardReversed ==
    [][\A t \in Threads :
          /\ (th[t].pc = "cb_store" /\ th'[t] # th[t])
                => (latestError' = th[t].err /\ th'[t].fwd = <<>>)
          /\ (th'[t].fwd # th[t].fwd /\ th'[t].fwd # <<>>)
                => (th[t].pc = "cb_fwd" /\ th[t].after # "none")
          /\ (th[t].pc = "cb_fwd" /\ th'[t].pc = "idle")
                => (th'[t].fwd = Reversed(oldHandlers) /\ th[t].after # "none")
      ]_vars

\* A callback returned after it called the two recorded handlers, the second
\* one recorded first.
C14_Witness ==
    \E t \in Threads :
        /\ th[t].op = "callback" /\ th[t].pc = "idle"
        /\ oldHandlers = <<"h1", "h2">>
        /\ th[t].fwd = <<"h2", "h1">>
        /\ latestError = MakeXError(th[t].ev)

\* C15: OLD_HANDLERS never holds x_error_callback (nor an absent handler):
\* Display::new pushes what XSetErrorHandler returned only when it is a handler
\* other than the crate's own, so no callback calls x_error_callback.
C15_ChainExcludesBridge ==
    /\ \A i \in 1..Len(oldHandlers) :
          oldHandlers[i] # x_error_callback /\ oldHandlers[i] # NoHandler
    /\ \A t \in Threads : \A i \in 1..Len(th[t].fwd) :
          th[t].fwd[i] # x_error_callback

\* Display::new ran twice with no handler of other code in between, so the
\* second run got x_error_callback back from XSetErrorHandler, and a later
\* fault was forwarded to nobody.
C15_Witness ==
    /\ Cardinality({o \in ObjIds : objs[o].used /\ objs[o].owned}) = 2
    /\ oldHandlers = <<>> /\ curHandler = x_error_callback
    /\ \E t \in Threads : th[t].op = "callback" /\ th[t].pc = "idle" /\ th[t].fwd = <<>>

\* C16: no XSetErrorHandler, XOpenDisplay, XCloseDisplay or XGetErrorText of
\* the crate runs before the first XInitThreads, and each Display::new makes
\* its calls in the order XInitThreads, XSetErrorHandler, XOpenDisplay.
C16_InitThreadsFirst ==
    [][/\ ~earlyCall'
       /\ (curHandler' # curHandler \/ nativeOpen' # nativeOpen) => threadsInit
       /\ \A t \in Threads :
             /\ (th'[t].pc = "cb_store" /\ th[t].pc # "cb_store") => threadsInit
             /\ (th'[t].pc = "n_seth" /\ th[t].pc # "n_seth")
                   => (th[t].pc = "n_init" /\ threadsInit')
             /\ (th'[t].pc = "n_chain" /\ th[t].pc # "n_chain")
                   => (th[t].pc = "n_seth" /\ curHandler' = x_error_callback)
             /\ (th'[t].pc = "n_open" /\ th[t].pc # "n_open") => th[t].pc = "n_chain"
             /\ (th[t].pc = "n_open" /\ th'[t].pc = "n_arc")
                   => nativeOpen' = nativeOpen \cup {th'[t].arg}
      ]_vars

\* All four calls were made: a connection was opened and closed again and a
\* callback looked up its error text, while a Borrowed connection existed.
C16_Witness ==
    /\ threadsInit /\ curHandler = x_error_callback
    /\ \E o \in ObjIds : objs[o].used /\ objs[o].owned /\ objs[o].closed = 1
    /\ \E o \in ObjIds : objs[o].used /\ ~objs[o].owned
    /\ \E t \in Threads : th[t].op = "callback" /\ th[t].pc = "idle"

\* C17: a Display::new whose XOpenDisplay returns null returns the
\* XOpenDisplayFailed error and leaves the objects, DISPLAYS and LATEST_ERROR
\* as they were; one whose XOpenDisplay returns a handle returns a new owned
\* Display with that handle, registered by exactly one new entry of DISPLAYS;
\* no step of Display::new touches LATEST_ERROR.
C17_OpenNullOrOwned ==
    [][\A t \in Threads :
          /\ (th[t].op = "new" /\ th[t].pc # "idle" /\ th'[t] # th[t])
                => UNCHANGED errVars
          /\ (th[t].pc = "n_open" /\ th'[t].pc = "idle")
                => /\ th'[t].op = "new" /\ th'[t].ret = "err"
                   /\ th'[t].err = XNotSupported /\ th'[t].robj = 0
                   /\ UNCHANGED <<objs, displays, nativeOpen>>
          /\ (th[t].pc = "n_open" /\ th'[t].pc = "n_arc")
                => /\ th'[t].arg \in Handles /\ th'[t].arg \notin nativeOpen
                   /\ nativeOpen' = nativeOpen \cup {th'[t].arg}
                   /\ UNCHANGED <<objs, displays>>
          /\ (th[t].pc = "n_arc" /\ th'[t].pc = "n_push")
                => /\ ~objs[th'[t].obj].used
                   /\ objs' = [objs EXCEPT ![th'[t].obj] = OwnedDisplay(th[t].arg)]
                   /\ displays' = displays
          /\ (th[t].pc = "n_push" /\ th'[t].pc = "idle")
                => LET o == th[t].obj IN
                   /\ th'[t].op = "new" /\ th'[t].ret = "ok" /\ th'[t].robj = o
                   /\ objs'[o].owned /\ objs'[o].handle = th[t].arg
                   /\ objs'[o].strong = 1 /\ objs'[o].closed = 0
                   /\ displays' = Append(displays, o)
                   /\ Cardinality({i \in 1..Len(displays') : displays'[i] = o}) = 1
      ]_vars

\* With a fault waiting in LATEST_ERROR, one Display::new failed on a null
\* handle and the other returned the owned Display of the only entry.
C17_Witness ==
    \E t, u \in Threads :
        /\ th[t].op = "new" /\ th[t].ret = "err" /\ th[t].err = XNotSupported
        /\ th[u].op = "new" /\ th[u].ret = "ok"
        /\ displays = <<th[u].robj>> /\ objs[th[u].robj].owned
        /\ Cardinality({o \in ObjIds : objs[o].used}) = 1
        /\ latestError # NoError

\* No Display::new, from_raw or Drop for Display is under way.
Quiescent == \A t \in Threads : ~Busy(t)

\* C18: whenever no construction and no destruction is under way, DISPLAYS
\* holds exactly one entry for each live Display and no entry of a dead one,
\* so its length is the number of live Display objects.
C18_QuiescentRegistryExact ==
    Quiescent =>
        /\ \A o \in ObjIds :
              Live(o) => Cardinality({i \in 1..Len(displays) : displays[i] = o}) = 1
        /\ \A i \in 1..Len(displays) : Live(displays[i])
        /\ Len(displays) = Cardinality({o \in ObjIds : Live(o)})

\* With nothing under way, the registry holds the one entry of the one live
\* Display: the Display a from_raw had created is destroyed and its entry
\* pruned.
C18_Witness ==
    /\ Quiescent
    /\ Len(displays) = 1 /\ Live(displays[1])
    /\ \E t \in Threads :
          /\ th[t].op = "from_raw" /\ th[t].ret = "created"
          /\ ~objs[th[t].robj].used

\* C19: once X11_DISPLAY holds Ok(display), it holds it for good: the
\* Display stays alive and registered, XCloseDisplay never runs on it however
\* many other owners are dropped, and every from_raw given its handle returns
\* one more owner of that Display.
C19_DefaultStaysOpen ==
    [][cell.state = "ok" =>
          LET d == cell.obj IN
          /\ cell' = cell
          /\ objs'[d].used /\ objs'[d].owned /\ objs'[d].strong > 0
          /\ objs'[d].closed = 0 /\ objs'[d].handle = objs[d].handle
          /\ objs[d].handle \in nativeOpen'
          /\ \E i \in 1..Len(displays') : displays'[i] = d
          /\ \A t \in Threads :
                (/\ th[t].pc \in {"f_cmp", "f_push"} /\ th'[t].pc = "idle"
                 /\ th[t].arg = objs[d].handle)
                    => (th'[t].ret = "shared" /\ th'[t].robj = d)
      ]_vars

\* from_raw returned a second owner of the default Display and that owner
\* was dropped again by the other thread, while the cell kept its own.
C19_Witness ==
    /\ cell.state = "ok"
    /\ objs[cell.obj].strong = 1 /\ objs[cell.obj].held = 0
    /\ objs[cell.obj].closed = 0
    /\ displays = <<cell.obj>>
    /\ \E t \in Threads :
          th[t].op = "from_raw" /\ th[t].ret = "shared" /\ th[t].robj = cell.obj

====
